---------------------------- MODULE Spec2Model ----------------------------
(***************************************************************************)
(* esp-hal: the one-shot / periodic timer wrappers (timer/mod.rs) and the  *)
(* uptime source with its latched 64-bit read (time.rs).                   *)
(*                                                                         *)
(* Three specifications share the module:                                  *)
(*   SpecTimer  OneShotTimer / PeriodicTimer over one hardware timer       *)
(*   SpecLatch  SysUptime::try_now_raw on the ESP32 (LACT hi/lo latch)     *)
(*   SpecConv   the delay_millis / delay_micros / delay_nanos conversions  *)
(* Each hardware register access is one step, and the hardware (the clock  *)
(* tick, the landing of a requested capture) runs between any two steps.   *)
(***************************************************************************)
EXTENDS Integers, Naturals, Sequences, FiniteSets, TLC

VARIABLES
    \* ---- hardware timer behind the Timer trait, and the wrapper using it
    hw,          \* [running, count, loaded, autoReload, intFlag, alarmActive]
    kind,        \* "oneshot" | "periodic": the wrapper that owns the timer
    pc,          \* position of the caller inside delay / start / wait / cancel
    arg,         \* duration argument of the last delay() / start() call
    ret,         \* result of the last call that returned
    lastOp,      \* the last call that returned
    prevOp,      \* the call that returned before it
    prevRet,     \* and its result
    \* ---- reference clock and history (observers, not program state)
    elapsed,     \* ticks since delay() / start() was called, and again since start() returned
    fires,       \* hardware fires since start() returned
    readies,     \* wait() calls that reported Ready since start() returned
    armed,       \* start() returned and neither cancel() nor start() followed
    waitAt,      \* value of elapsed when the last wait() read the flag
    wasRunning,  \* is_running() as read by the last cancel()
    atCall,      \* running / flag / auto-reload as the last delay() or start() found them
    fresh,       \* the hardware fired since the last start() call and since wait() last cleared the flag
    sawFresh,    \* value of fresh when the last wait() read the flag
    started,     \* a start() has returned
    isrOn,       \* an interrupt handler is wired to the same timer's flag
    \* ---- LACT counter and the latched read of try_now_raw
    counter,     \* the free-running counter
    latLo,       \* LACTLO: low half of the last capture
    latHi,       \* LACTHI: high half of the last capture
    capPending,  \* a capture was requested and has not landed yet
    divider,     \* LACTCONFIG.divider
    lpc,         \* position inside try_now_raw
    lo_initial,  \* locals of try_now_raw
    div,
    lo,
    hi,
    loReads,     \* reads of LACTLO made by the poll loop of the current call
    ticks,       \* value returned by the last try_now_raw
    prevTicks,   \* value returned by the call before it
    nReads,      \* try_now_raw calls that returned
    hiAtLo,      \* LACTHI at the moment the local lo was read
    torn,        \* the last returned value is not a value the latch ever held
    target,      \* "esp32" (latched LACT read) | "direct" (SYSTIMER read)
    res,         \* what the last try_now_raw returned: "none" | "Ok" | "Err"
    \* ---- a second try_now_raw, called from an interrupt handler
    serialized,  \* the callers wrap every read in a critical section
    ipc,         \* position inside the handler's try_now_raw
    ilo_initial, \* its locals
    idiv,
    ilo,
    ihiAtLo,     \* LACTHI at the moment the handler's lo was read
    isrDone,     \* the handler's read has returned
    isrTorn,     \* the handler's read returned a value the latch never held
    \* ---- unit conversion of the delay entry points
    convUnit,    \* "none" | "millis" | "micros" | "nanos"
    convN,       \* the argument of the entry point
    convUs       \* the MicrosDurationU64 it hands to delay()

varsTimer == <<hw, kind, pc, arg, ret, lastOp, prevOp, prevRet, elapsed, fires, readies,
               armed, waitAt, wasRunning, atCall, fresh, sawFresh, started, isrOn>>
varsLatch == <<counter, latLo, latHi, capPending, divider, lpc, lo_initial, div,
               lo, hi, loReads, ticks, prevTicks, nReads, hiAtLo, torn, target, res,
               serialized, ipc, ilo_initial, idiv, ilo, ihiAtLo, isrDone, isrTorn>>
varsConv == <<convUnit, convN, convUs>>
vars == <<varsTimer, varsLatch, varsConv>>

(***************************************************************************)
(* Bounds of the model.                                                    *)
(***************************************************************************)
\* longest duration (in microseconds) handed to delay() / start()
MaxDur == 3
\* ticks of the reference clock followed after a call
MaxTime == 6
\* largest LACTCONFIG.divider the read is tried with (time_init sets 5)
MaxDiv == 5
\* the LACT counter is followed up to this count (no wraparound below it)
MaxCounter == 6
\* try_now_raw calls in one behaviour
MaxReads == 3
\* stands for 2^32: the low half counts modulo HalfMod
HalfMod == 4
\* largest arguments given to delay_nanos / delay_micros / delay_millis
MaxNanos == 1500
MaxMicros == 3
MaxMillis == 3

Max(a, b) == IF a > b THEN a ELSE b

(***************************************************************************)
(* The hardware timer capability (trait Timer).  Its implementations live  *)
(* in timer/timg.rs and timer/systimer.rs; the primitives follow the       *)
(* trait's documentation.                                                  *)
(***************************************************************************)
HwStates ==
    [running : BOOLEAN, count : 0..MaxDur, loaded : 0..MaxDur,
     autoReload : BOOLEAN, intFlag : BOOLEAN, alarmActive : BOOLEAN]

start(h) == [h EXCEPT !.running = TRUE]
stop(h) == [h EXCEPT !.running = FALSE]
reset(h) == [h EXCEPT !.count = 0]
is_running(h) == h.running
load_value(h, value) == [h EXCEPT !.loaded = value]
enable_auto_reload(h, auto_reload) == [h EXCEPT !.autoReload = auto_reload]
clear_interrupt(h) == [h EXCEPT !.intFlag = FALSE]
is_interrupt_set(h) == h.intFlag
set_alarm_active(h, state) == [h EXCEPT !.alarmActive = state]

\* The running count reaches the loaded value with the next tick.
HwFires(h) == h.running /\ h.count + 1 >= h.loaded

\* One tick of the timer's clock: a running timer counts; on reaching the
\* loaded value it sets the interrupt flag and, with auto-reload, restarts
\* from zero (without auto-reload it stays at its target).
HwTick(h) ==
    IF ~h.running THEN h
    ELSE IF HwFires(h)
         THEN [h EXCEPT !.intFlag = TRUE,
                        !.count = IF h.autoReload THEN 0
                                  ELSE IF h.count < h.loaded THEN h.count + 1
                                  ELSE h.count]
         ELSE [h EXCEPT !.count = h.count + 1]

ghost == <<elapsed, fires, readies, armed, waitAt, wasRunning, atCall, fresh, sawFresh,
          started, isrOn>>
ctl == <<arg, ret, lastOp, prevOp, prevRet>>
isrCtx == <<serialized, ipc, ilo_initial, idiv, ilo, ihiAtLo, isrDone, isrTorn>>

Return(op, r) ==
    /\ pc' = "idle"
    /\ ret' = r
    /\ lastOp' = op
    /\ prevOp' = lastOp
    /\ prevRet' = ret

AtCall(h) == [running |-> h.running, intFlag |-> h.intFlag, autoReload |-> h.autoReload]

(***************************************************************************)
(* OneShotTimer::delay (timer/mod.rs 87-105), one register access a step.  *)
(***************************************************************************)
\* if self.inner.is_running() { self.inner.stop(); }
DelayCall(us) ==
    /\ kind = "oneshot"
    /\ pc = "idle"
    /\ hw' = IF is_running(hw) THEN stop(hw) ELSE hw
    /\ pc' = "delay_clear"
    /\ arg' = us
    /\ elapsed' = 0
    /\ atCall' = AtCall(hw)
    /\ fresh' = FALSE
    /\ UNCHANGED <<kind, ret, lastOp, prevOp, prevRet, fires, readies, armed, waitAt, wasRunning,
                   sawFresh, started, isrOn>>
    /\ UNCHANGED <<varsLatch, varsConv>>

\* Mutant: delay() that leaves a stale interrupt flag in place.
DelayClearSkipped ==
    /\ pc = "delay_clear"
    /\ pc' = "delay_reset"
    /\ UNCHANGED <<hw, kind, ctl, ghost>>
    /\ UNCHANGED <<varsLatch, varsConv>>

\* self.inner.clear_interrupt();
DelayClear ==
    /\ pc = "delay_clear"
    /\ hw' = clear_interrupt(hw)
    /\ pc' = "delay_reset"
    /\ UNCHANGED <<kind, ctl, ghost>>
    /\ UNCHANGED <<varsLatch, varsConv>>

\* self.inner.reset();
DelayReset ==
    /\ pc = "delay_reset"
    /\ hw' = reset(hw)
    /\ pc' = "delay_reload"
    /\ UNCHANGED <<kind, ctl, ghost>>
    /\ UNCHANGED <<varsLatch, varsConv>>

\* self.inner.enable_auto_reload(false);
DelayAutoReload ==
    /\ pc = "delay_reload"
    /\ hw' = enable_auto_reload(hw, FALSE)
    /\ pc' = "delay_load"
    /\ UNCHANGED <<kind, ctl, ghost>>
    /\ UNCHANGED <<varsLatch, varsConv>>

\* self.inner.load_value(us);
DelayLoad ==
    /\ pc = "delay_load"
    /\ hw' = load_value(hw, arg)
    /\ pc' = "delay_start"
    /\ UNCHANGED <<kind, ctl, ghost>>
    /\ UNCHANGED <<varsLatch, varsConv>>

\* Mutant: delay() that never starts the timer it has loaded.
DelayStartSkipped ==
    /\ pc = "delay_start"
    /\ pc' = "delay_poll"
    /\ UNCHANGED <<hw, kind, ctl, ghost>>
    /\ UNCHANGED <<varsLatch, varsConv>>

\* self.inner.start();
DelayStart ==
    /\ pc = "delay_start"
    /\ hw' = start(hw)
    /\ pc' = "delay_poll"
    /\ UNCHANGED <<kind, ctl, ghost>>
    /\ UNCHANGED <<varsLatch, varsConv>>

\* while !self.inner.is_interrupt_set() {}
DelayPoll ==
    /\ pc = "delay_poll"
    /\ pc' = IF is_interrupt_set(hw) THEN "delay_exit_stop" ELSE "delay_poll"
    /\ UNCHANGED <<hw, kind, ctl, ghost>>
    /\ UNCHANGED <<varsLatch, varsConv>>

\* Mutant: delay() that leaves the timer running on exit.
DelayExitStopSkipped ==
    /\ pc = "delay_exit_stop"
    /\ pc' = "delay_exit_clear"
    /\ UNCHANGED <<hw, kind, ctl, ghost>>
    /\ UNCHANGED <<varsLatch, varsConv>>

\* self.inner.stop();
DelayExitStop ==
    /\ pc = "delay_exit_stop"
    /\ hw' = stop(hw)
    /\ pc' = "delay_exit_clear"
    /\ UNCHANGED <<kind, ctl, ghost>>
    /\ UNCHANGED <<varsLatch, varsConv>>

\* self.inner.clear_interrupt(); and return
DelayExitClear ==
    /\ pc = "delay_exit_clear"
    /\ hw' = clear_interrupt(hw)
    /\ Return("delay", "Unit")
    /\ UNCHANGED <<kind, arg, ghost>>
    /\ UNCHANGED <<varsLatch, varsConv>>

(***************************************************************************)
(* PeriodicTimer::start (timer/mod.rs 156-167).                            *)
(***************************************************************************)
\* if self.inner.is_running() { self.inner.stop(); }
StartCall(timeout) ==
    /\ kind = "periodic"
    /\ pc = "idle"
    /\ hw' = IF is_running(hw) THEN stop(hw) ELSE hw
    /\ pc' = "start_clear"
    /\ arg' = timeout
    /\ armed' = FALSE
    /\ atCall' = AtCall(hw)
    /\ elapsed' = 0
    /\ fires' = 0
    /\ readies' = 0
    /\ waitAt' = 0
    /\ fresh' = FALSE
    /\ UNCHANGED <<kind, ret, lastOp, prevOp, prevRet, wasRunning, sawFresh, started, isrOn>>
    /\ UNCHANGED <<varsLatch, varsConv>>

\* Mutant: start() that leaves a stale interrupt flag in place.
StartClearSkipped ==
    /\ pc = "start_clear"
    /\ pc' = "start_reset"
    /\ UNCHANGED <<hw, kind, ctl, ghost>>
    /\ UNCHANGED <<varsLatch, varsConv>>

\* self.inner.clear_interrupt();
StartClear ==
    /\ pc = "start_clear"
    /\ hw' = clear_interrupt(hw)
    /\ pc' = "start_reset"
    /\ UNCHANGED <<kind, ctl, ghost>>
    /\ UNCHANGED <<varsLatch, varsConv>>

\* Mutant: start() that keeps the old count.
StartResetSkipped ==
    /\ pc = "start_reset"
    /\ pc' = "start_reload"
    /\ UNCHANGED <<hw, kind, ctl, ghost>>
    /\ UNCHANGED <<varsLatch, varsConv>>

\* self.inner.reset();
StartReset ==
    /\ pc = "start_reset"
    /\ hw' = reset(hw)
    /\ pc' = "start_reload"
    /\ UNCHANGED <<kind, ctl, ghost>>
    /\ UNCHANGED <<varsLatch, varsConv>>

\* Mutant: start() that arms a single shot.
StartAutoReloadOff ==
    /\ pc = "start_reload"
    /\ hw' = enable_auto_reload(hw, FALSE)
    /\ pc' = "start_load"
    /\ UNCHANGED <<kind, ctl, ghost>>
    /\ UNCHANGED <<varsLatch, varsConv>>

\* self.inner.enable_auto_reload(true);
StartAutoReload ==
    /\ pc = "start_reload"
    /\ hw' = enable_auto_reload(hw, TRUE)
    /\ pc' = "start_load"
    /\ UNCHANGED <<kind, ctl, ghost>>
    /\ UNCHANGED <<varsLatch, varsConv>>

\* self.inner.load_value(timeout);
StartLoad ==
    /\ pc = "start_load"
    /\ hw' = load_value(hw, arg)
    /\ pc' = "start_start"
    /\ UNCHANGED <<kind, ctl, ghost>>
    /\ UNCHANGED <<varsLatch, varsConv>>

\* self.inner.start(); and return
StartStart ==
    /\ pc = "start_start"
    /\ hw' = start(hw)
    /\ Return("start", "Unit")
    /\ elapsed' = 0
    /\ fires' = 0
    /\ readies' = 0
    /\ armed' = TRUE
    /\ started' = TRUE
    /\ UNCHANGED <<kind, arg, waitAt, wasRunning, atCall, fresh, sawFresh, isrOn>>
    /\ UNCHANGED <<varsLatch, varsConv>>

(***************************************************************************)
(* PeriodicTimer::wait (timer/mod.rs 170-179).                             *)
(***************************************************************************)
\* Mutant: wait() that re-arms the alarm line before it looks at the flag.
WaitCheckRearmsFirst ==
    /\ kind = "periodic"
    /\ pc = "idle"
    /\ waitAt' = elapsed
    /\ sawFresh' = fresh
    /\ hw' = set_alarm_active(hw, TRUE)
    /\ IF is_interrupt_set(hw)
       THEN /\ pc' = "wait_clear"
            /\ UNCHANGED <<ret, lastOp, prevOp, prevRet>>
       ELSE Return("wait", "WouldBlock")
    /\ UNCHANGED <<kind, arg, elapsed, fires, readies, armed, wasRunning, atCall, fresh,
                   started, isrOn>>
    /\ UNCHANGED <<varsLatch, varsConv>>

\* if self.inner.is_interrupt_set() { ... } else { Err(nb::Error::WouldBlock) }
WaitCheck ==
    /\ kind = "periodic"
    /\ pc = "idle"
    /\ waitAt' = elapsed
    /\ sawFresh' = fresh
    /\ IF is_interrupt_set(hw)
       THEN /\ pc' = "wait_clear"
            /\ UNCHANGED <<ret, lastOp, prevOp, prevRet>>
       ELSE Return("wait", "WouldBlock")
    /\ UNCHANGED <<hw, kind, arg, elapsed, fires, readies, armed, wasRunning, atCall, fresh,
                   started, isrOn>>
    /\ UNCHANGED <<varsLatch, varsConv>>

\* Mutant: wait() that reports Ready without consuming the flag.
WaitClearSkipped ==
    /\ pc = "wait_clear"
    /\ hw' = hw
    /\ pc' = "wait_alarm"
    /\ fresh' = FALSE
    /\ UNCHANGED <<kind, ctl, elapsed, fires, readies, armed, waitAt, wasRunning, atCall,
                   sawFresh, started, isrOn>>
    /\ UNCHANGED <<varsLatch, varsConv>>

\* self.inner.clear_interrupt();
WaitClear ==
    /\ pc = "wait_clear"
    /\ hw' = clear_interrupt(hw)
    /\ pc' = "wait_alarm"
    /\ fresh' = FALSE
    /\ UNCHANGED <<kind, ctl, elapsed, fires, readies, armed, waitAt, wasRunning, atCall,
                   sawFresh, started, isrOn>>
    /\ UNCHANGED <<varsLatch, varsConv>>

\* Mutant: wait() that clears the flag a second time before reporting Ready.
WaitAlarmClearsAgain ==
    /\ pc = "wait_alarm"
    /\ hw' = clear_interrupt(set_alarm_active(hw, TRUE))
    /\ Return("wait", "Ready")
    /\ readies' = readies + 1
    /\ UNCHANGED <<kind, arg, elapsed, fires, armed, waitAt, wasRunning, atCall, fresh,
                   sawFresh, started, isrOn>>
    /\ UNCHANGED <<varsLatch, varsConv>>

\* self.inner.set_alarm_active(true); Ok(())
WaitAlarm ==
    /\ pc = "wait_alarm"
    /\ hw' = set_alarm_active(hw, TRUE)
    /\ Return("wait", "Ready")
    /\ readies' = readies + 1
    /\ UNCHANGED <<kind, arg, elapsed, fires, armed, waitAt, wasRunning, atCall, fresh,
                   sawFresh, started, isrOn>>
    /\ UNCHANGED <<varsLatch, varsConv>>

(***************************************************************************)
(* PeriodicTimer::cancel (timer/mod.rs 182-190).                           *)
(***************************************************************************)
\* Mutant: cancel() that reports Ok without stopping the timer.
CancelNoStop ==
    /\ kind = "periodic"
    /\ pc = "idle"
    /\ wasRunning' = is_running(hw)
    /\ hw' = hw
    /\ IF ~is_running(hw)
       THEN /\ armed' = armed
            /\ Return("cancel", "TimerInactive")
       ELSE /\ armed' = FALSE
            /\ Return("cancel", "Ok")
    /\ UNCHANGED <<kind, arg, elapsed, fires, readies, waitAt, atCall, fresh, sawFresh,
                   started, isrOn>>
    /\ UNCHANGED <<varsLatch, varsConv>>

\* Mutant: cancel() that clears the interrupt flag before reporting the error.
CancelClearsOnErr ==
    /\ kind = "periodic"
    /\ pc = "idle"
    /\ wasRunning' = is_running(hw)
    /\ IF ~is_running(hw)
       THEN /\ hw' = clear_interrupt(hw)
            /\ armed' = armed
            /\ Return("cancel", "TimerInactive")
       ELSE /\ hw' = stop(hw)
            /\ armed' = FALSE
            /\ Return("cancel", "Ok")
    /\ UNCHANGED <<kind, arg, elapsed, fires, readies, waitAt, atCall, fresh, sawFresh,
                   started, isrOn>>
    /\ UNCHANGED <<varsLatch, varsConv>>

\* if !self.inner.is_running() { return Err(Error::TimerInactive); }
\* self.inner.stop(); Ok(())
Cancel ==
    /\ kind = "periodic"
    /\ pc = "idle"
    /\ wasRunning' = is_running(hw)
    /\ IF ~is_running(hw)
       THEN /\ hw' = hw
            /\ armed' = armed
            /\ Return("cancel", "TimerInactive")
       ELSE /\ hw' = stop(hw)
            /\ armed' = FALSE
            /\ Return("cancel", "Ok")
    /\ UNCHANGED <<kind, arg, elapsed, fires, readies, waitAt, atCall, fresh, sawFresh,
                   started, isrOn>>
    /\ UNCHANGED <<varsLatch, varsConv>>

(***************************************************************************)
(* The hardware's clock: one microsecond passes.                           *)
(***************************************************************************)
\* The periodic timer's fires are counted, so its clock is followed up to
\* MaxTime; the one-shot's reference clock saturates there and time goes on.
Tick ==
    /\ kind = "periodic" => elapsed < MaxTime
    /\ elapsed' = IF elapsed < MaxTime THEN elapsed + 1 ELSE elapsed
    /\ hw' = HwTick(hw)
    /\ fires' = IF kind = "periodic" /\ HwFires(hw) THEN fires + 1 ELSE fires
    /\ fresh' = (fresh \/ HwFires(hw))
    /\ UNCHANGED <<kind, pc, ctl, readies, armed, waitAt, wasRunning, atCall, sawFresh,
                   started, isrOn>>
    /\ UNCHANGED <<varsLatch, varsConv>>



NextTimer ==
    \/ \E us \in 0..MaxDur : DelayCall(us)
    \/ DelayClear
    \/ DelayReset
    \/ DelayAutoReload
    \/ DelayLoad
    \/ DelayStart
    \/ DelayPoll
    \/ DelayExitStop
    \/ DelayExitClear
    \/ \E timeout \in 0..MaxDur : StartCall(timeout)
    \/ StartClear
    \/ StartReset
    \/ StartAutoReload
    \/ StartLoad
    \/ StartStart
    \/ WaitCheck
    \/ WaitClear
    \/ WaitAlarm
    \/ Cancel
    \/ Tick

(***************************************************************************)
(* An interrupt handler wired to the same timer's interrupt line: it runs  *)
(* whenever the flag is set, between any two steps of the main context,    *)
(* and acknowledges the interrupt by clearing the flag.                    *)
(***************************************************************************)
IsrService ==
    /\ isrOn
    /\ is_interrupt_set(hw)
    /\ hw' = clear_interrupt(hw)
    /\ UNCHANGED <<kind, pc, ctl, ghost>>
    /\ UNCHANGED <<varsLatch, varsConv>>

NextTimerIsr ==
    \/ \E us \in 0..MaxDur : DelayCall(us)
    \/ DelayClear
    \/ DelayReset
    \/ DelayAutoReload
    \/ DelayLoad
    \/ DelayStart
    \/ DelayPoll
    \/ DelayExitStop
    \/ DelayExitClear
    \/ \E timeout \in 0..MaxDur : StartCall(timeout)
    \/ StartClear
    \/ StartReset
    \/ StartAutoReload
    \/ StartLoad
    \/ StartStart
    \/ WaitCheck
    \/ WaitClear
    \/ WaitAlarm
    \/ Cancel
    \/ Tick
    \/ IsrService

\* The one-shot timer alone with its hardware clock.
NextDelay ==
    \/ \E us \in 0..MaxDur : DelayCall(us)
    \/ DelayClear
    \/ DelayReset
    \/ DelayAutoReload
    \/ DelayLoad
    \/ DelayStart
    \/ DelayPoll
    \/ DelayExitStop
    \/ DelayExitClear
    \/ Tick

(***************************************************************************)
(* SysUptime::try_now_raw, ESP32 path (time.rs 35-67).  LACTUPDATE asks    *)
(* the hardware to copy the running counter into LACTLO / LACTHI; there is *)
(* no bit saying when the copy is done.                                    *)
(***************************************************************************)
\* tg0.lactupdate().write(|w| w.update().bits(1));
ReadCall ==
    /\ target = "esp32"
    /\ lpc = "idle"
    /\ ipc = "idle"
    /\ nReads < MaxReads
    /\ capPending' = TRUE
    /\ loReads' = 0
    /\ lpc' = "lo_initial"
    /\ UNCHANGED <<counter, latLo, latHi, divider, lo_initial, div, lo, hi, ticks,
                   prevTicks, nReads, hiAtLo, torn>>
    /\ UNCHANGED <<target, res>>
    /\ UNCHANGED <<varsTimer, varsConv, isrCtx>>

\* let lo_initial = tg0.lactlo().read().bits();
ReadLoInitial ==
    /\ lpc = "lo_initial"
    /\ ipc = "idle"
    /\ lo_initial' = latLo
    /\ lpc' = "div"
    /\ UNCHANGED <<counter, latLo, latHi, capPending, divider, div, lo, hi, loReads,
                   ticks, prevTicks, nReads, hiAtLo, torn>>
    /\ UNCHANGED <<target, res>>
    /\ UNCHANGED <<varsTimer, varsConv, isrCtx>>

\* let mut div = tg0.lactconfig().read().divider().bits();
ReadDiv ==
    /\ lpc = "div"
    /\ ipc = "idle"
    /\ div' = divider
    /\ lpc' = "loop"
    /\ UNCHANGED <<counter, latLo, latHi, capPending, divider, lo_initial, lo, hi,
                   loReads, ticks, prevTicks, nReads, hiAtLo, torn>>
    /\ UNCHANGED <<target, res>>
    /\ UNCHANGED <<varsTimer, varsConv, isrCtx>>

\* Mutant: the poll loop without its retry budget.
LoopExitNoBudget(l, d) == l # lo_initial

\* if lo != lo_initial || div == 0 { break lo; }
LoopExit(l, d) == l # lo_initial \/ d = 0

\* let lo = tg0.lactlo().read().bits(); if ... { break lo; } div -= 1;
LoopRead ==
    /\ lpc = "loop"
    /\ ipc = "idle"
    /\ lo' = latLo
    /\ hiAtLo' = latHi
    /\ loReads' = loReads + 1
    /\ IF LoopExit(latLo, div)
       THEN lpc' = "hi" /\ div' = div
       ELSE lpc' = "loop" /\ div' = div - 1
    /\ UNCHANGED <<counter, latLo, latHi, capPending, divider, lo_initial, hi, ticks,
                   prevTicks, nReads, torn>>
    /\ UNCHANGED <<target, res>>
    /\ UNCHANGED <<varsTimer, varsConv, isrCtx>>

\* let ticks = (hi as u64) << 32u64 | lo as u64;
Compose(h, l) == h * HalfMod + l

\* Mutant: a read that reports an error when its retry budget ran out.
RawResultErrOnTimeout == IF lo = lo_initial /\ div = 0 THEN "Err" ELSE "Ok"

\* Ok(ticks): the only value try_now_raw returns, on both paths.
RawResult == "Ok"

\* let ticks = self.try_now_raw()?; Ok(Self::TickMeasure::from_ticks(ticks))
try_now(r) == IF r = "Ok" THEN "Ok" ELSE "Err"

\* self.try_now().unwrap()
current_time(r) == IF try_now(r) = "Ok" THEN "Value" ELSE "panic"

\* let hi = tg0.lacthi().read().bits(); ...; Ok(ticks)
ReadHi ==
    /\ lpc = "hi"
    /\ ipc = "idle"
    /\ hi' = latHi
    /\ ticks' = Compose(latHi, lo)
    /\ prevTicks' = ticks
    /\ nReads' = nReads + 1
    /\ torn' = (lo # latLo /\ latHi # hiAtLo)
    /\ res' = RawResult
    /\ lpc' = "idle"
    /\ UNCHANGED <<counter, latLo, latHi, capPending, divider, lo_initial, div, lo,
                   loReads, hiAtLo>>
    /\ UNCHANGED target
    /\ UNCHANGED <<varsTimer, varsConv, isrCtx>>

\* Not ESP32: crate::timer::systimer::SystemTimer::now(); Ok(ticks).  The
\* system timer hands out the counter's value in one read.
ReadDirect ==
    /\ target = "direct"
    /\ lpc = "idle"
    /\ ipc = "idle"
    /\ nReads < MaxReads
    /\ ticks' = counter
    /\ prevTicks' = ticks
    /\ nReads' = nReads + 1
    /\ torn' = FALSE
    /\ res' = RawResult
    /\ UNCHANGED <<counter, latLo, latHi, capPending, divider, lpc, lo_initial, div, lo, hi,
                   loReads, hiAtLo, target>>
    /\ UNCHANGED <<varsTimer, varsConv, isrCtx>>

\* The counter counts.
CounterTick ==
    /\ counter < MaxCounter
    /\ counter' = counter + 1
    /\ UNCHANGED <<latLo, latHi, capPending, divider, lpc, lo_initial, div, lo, hi,
                   loReads, ticks, prevTicks, nReads, hiAtLo, torn>>
    /\ UNCHANGED <<target, res>>
    /\ UNCHANGED <<varsTimer, varsConv, isrCtx>>

\* The requested capture lands: both halves take the counter's value.
CaptureLand ==
    /\ capPending
    /\ latLo' = counter % HalfMod
    /\ latHi' = counter \div HalfMod
    /\ capPending' = FALSE
    /\ UNCHANGED <<counter, divider, lpc, lo_initial, div, lo, hi, loReads, ticks,
                   prevTicks, nReads, hiAtLo, torn>>
    /\ UNCHANGED <<target, res>>
    /\ UNCHANGED <<varsTimer, varsConv, isrCtx>>



(***************************************************************************)
(* try_now_raw called from an interrupt handler (time.rs 35-67, the same   *)
(* code on the same registers).  The handler preempts the main context     *)
(* between any two register accesses and runs to its end before the main   *)
(* context goes on; with serialized callers it is held off while a main    *)
(* read is in progress.  One handler read is followed.                     *)
(***************************************************************************)
\* tg0.lactupdate().write(|w| w.update().bits(1));
IsrReadCall ==
    /\ ipc = "idle"
    /\ ~isrDone
    /\ serialized => lpc = "idle"
    /\ capPending' = TRUE
    /\ ipc' = "lo_initial"
    /\ UNCHANGED <<counter, latLo, latHi, divider, lpc, lo_initial, div, lo, hi, loReads,
                   ticks, prevTicks, nReads, hiAtLo, torn, target, res>>
    /\ UNCHANGED <<serialized, ilo_initial, idiv, ilo, ihiAtLo, isrDone, isrTorn>>
    /\ UNCHANGED <<varsTimer, varsConv>>

\* let lo_initial = tg0.lactlo().read().bits();
IsrReadLoInitial ==
    /\ ipc = "lo_initial"
    /\ ilo_initial' = latLo
    /\ ipc' = "div"
    /\ UNCHANGED <<counter, latLo, latHi, capPending, divider, lpc, lo_initial, div, lo, hi,
                   loReads, ticks, prevTicks, nReads, hiAtLo, torn, target, res>>
    /\ UNCHANGED <<serialized, idiv, ilo, ihiAtLo, isrDone, isrTorn>>
    /\ UNCHANGED <<varsTimer, varsConv>>

\* let mut div = tg0.lactconfig().read().divider().bits();
IsrReadDiv ==
    /\ ipc = "div"
    /\ idiv' = divider
    /\ ipc' = "loop"
    /\ UNCHANGED <<counter, latLo, latHi, capPending, divider, lpc, lo_initial, div, lo, hi,
                   loReads, ticks, prevTicks, nReads, hiAtLo, torn, target, res>>
    /\ UNCHANGED <<serialized, ilo_initial, ilo, ihiAtLo, isrDone, isrTorn>>
    /\ UNCHANGED <<varsTimer, varsConv>>

\* if lo != lo_initial || div == 0 { break lo; }
IsrLoopExit(l, d) == l # ilo_initial \/ d = 0

\* let lo = tg0.lactlo().read().bits(); if ... { break lo; } div -= 1;
IsrLoopRead ==
    /\ ipc = "loop"
    /\ ilo' = latLo
    /\ ihiAtLo' = latHi
    /\ IF IsrLoopExit(latLo, idiv)
       THEN ipc' = "hi" /\ idiv' = idiv
       ELSE ipc' = "loop" /\ idiv' = idiv - 1
    /\ UNCHANGED <<counter, latLo, latHi, capPending, divider, lpc, lo_initial, div, lo, hi,
                   loReads, ticks, prevTicks, nReads, hiAtLo, torn, target, res>>
    /\ UNCHANGED <<serialized, ilo_initial, isrDone, isrTorn>>
    /\ UNCHANGED <<varsTimer, varsConv>>

\* let hi = tg0.lacthi().read().bits(); ...; Ok(ticks); the handler's locals
\* are dropped.
IsrReadHi ==
    /\ ipc = "hi"
    /\ isrTorn' = (ilo # latLo /\ latHi # ihiAtLo)
    /\ isrDone' = TRUE
    /\ ipc' = "idle"
    /\ ilo_initial' = 0 /\ idiv' = 0 /\ ilo' = 0 /\ ihiAtLo' = 0
    /\ UNCHANGED <<counter, latLo, latHi, capPending, divider, lpc, lo_initial, div, lo, hi,
                   loReads, ticks, prevTicks, nReads, hiAtLo, torn, target, res>>
    /\ UNCHANGED serialized
    /\ UNCHANGED <<varsTimer, varsConv>>

NextLatch ==
    \/ ReadCall
    \/ ReadDirect
    \/ ReadLoInitial
    \/ ReadDiv
    \/ LoopRead
    \/ ReadHi
    \/ CounterTick
    \/ CaptureLand

\* The latched read used from the main context and from an interrupt handler.
NextLatchIsr ==
    \/ ReadCall
    \/ ReadLoInitial
    \/ ReadDiv
    \/ LoopRead
    \/ ReadHi
    \/ IsrReadCall
    \/ IsrReadLoInitial
    \/ IsrReadDiv
    \/ IsrLoopRead
    \/ IsrReadHi
    \/ CounterTick
    \/ CaptureLand

(***************************************************************************)
(* The delay entry points (timer/mod.rs 72-85): the MicrosDurationU64 each *)
(* hands to delay(), which loads it into the timer.                        *)
(***************************************************************************)
\* self.delay((ms as u64).millis());
delay_millis(ms) == ms * 1000

\* self.delay((us as u64).micros());
delay_micros(us) == us

\* self.delay((ns as u64 / 1000).micros())
delay_nanos(ns) == ns \div 1000

ConvMillis(ms) ==
    /\ convUnit' = "millis"
    /\ convN' = ms
    /\ convUs' = delay_millis(ms)
    /\ UNCHANGED <<varsTimer, varsLatch>>

ConvMicros(us) ==
    /\ convUnit' = "micros"
    /\ convN' = us
    /\ convUs' = delay_micros(us)
    /\ UNCHANGED <<varsTimer, varsLatch>>

ConvNanos(ns) ==
    /\ convUnit' = "nanos"
    /\ convN' = ns
    /\ convUs' = delay_nanos(ns)
    /\ UNCHANGED <<varsTimer, varsLatch>>



NextConv ==
    \/ \E ms \in 0..MaxMillis : ConvMillis(ms)
    \/ \E us \in 0..MaxMicros : ConvMicros(us)
    \/ \E ns \in 0..MaxNanos : ConvNanos(ns)

(***************************************************************************)
(* Specifications.                                                         *)
(***************************************************************************)

\* The wrapper is constructed over a timer in any hardware state; the uptime
\* source and the conversions are not used.
InitTimer ==
    /\ hw \in HwStates
    /\ kind \in {"oneshot", "periodic"}
    /\ pc = "idle" /\ arg = 0 /\ ret = "none" /\ lastOp = "none" /\ prevOp = "none"
    /\ prevRet = "none"
    /\ elapsed = 0 /\ fires = 0 /\ readies = 0 /\ armed = FALSE /\ waitAt = 0
    /\ wasRunning = FALSE
    /\ atCall = [running |-> FALSE, intFlag |-> FALSE, autoReload |-> FALSE]
    /\ fresh = FALSE /\ sawFresh = FALSE /\ started = FALSE /\ isrOn = FALSE
    /\ counter = 0 /\ latLo = 0 /\ latHi = 0 /\ capPending = FALSE
    /\ divider = 0
    /\ lpc = "idle" /\ lo_initial = 0 /\ div = 0 /\ lo = 0 /\ hi = 0
    /\ loReads = 0 /\ ticks = 0 /\ prevTicks = 0 /\ nReads = 0
    /\ hiAtLo = 0 /\ torn = FALSE
    /\ target = "esp32" /\ res = "none"
    /\ serialized = FALSE /\ ipc = "idle" /\ ilo_initial = 0 /\ idiv = 0 /\ ilo = 0
    /\ ihiAtLo = 0 /\ isrDone = FALSE /\ isrTorn = FALSE
    /\ convUnit = "none" /\ convN = 0 /\ convUs = 0

SpecTimer == InitTimer /\ [][NextTimer]_vars

\* A one-shot timer that is used only through delay().  The processor goes on
\* executing a delay() it has entered (weak fairness of each of its steps; a
\* poll that finds the flag clear repeats itself) and the hardware clock goes
\* on ticking (weak fairness of Tick); whether delay() is called is free.
InitDelay ==
    /\ hw \in HwStates
    /\ kind = "oneshot"
    /\ pc = "idle" /\ arg = 0 /\ ret = "none" /\ lastOp = "none" /\ prevOp = "none"
    /\ prevRet = "none"
    /\ elapsed = 0 /\ fires = 0 /\ readies = 0 /\ armed = FALSE /\ waitAt = 0
    /\ wasRunning = FALSE
    /\ atCall = [running |-> FALSE, intFlag |-> FALSE, autoReload |-> FALSE]
    /\ fresh = FALSE /\ sawFresh = FALSE /\ started = FALSE /\ isrOn = FALSE
    /\ counter = 0 /\ latLo = 0 /\ latHi = 0 /\ capPending = FALSE
    /\ divider = 0
    /\ lpc = "idle" /\ lo_initial = 0 /\ div = 0 /\ lo = 0 /\ hi = 0
    /\ loReads = 0 /\ ticks = 0 /\ prevTicks = 0 /\ nReads = 0
    /\ hiAtLo = 0 /\ torn = FALSE
    /\ target = "esp32" /\ res = "none"
    /\ serialized = FALSE /\ ipc = "idle" /\ ilo_initial = 0 /\ idiv = 0 /\ ilo = 0
    /\ ihiAtLo = 0 /\ isrDone = FALSE /\ isrTorn = FALSE
    /\ convUnit = "none" /\ convN = 0 /\ convUs = 0

SpecDelayFair ==
    /\ InitDelay
    /\ [][NextDelay]_vars
    /\ WF_vars(DelayClear) /\ WF_vars(DelayReset) /\ WF_vars(DelayAutoReload)
    /\ WF_vars(DelayLoad) /\ WF_vars(DelayStart) /\ WF_vars(DelayPoll)
    /\ WF_vars(DelayExitStop) /\ WF_vars(DelayExitClear)
    /\ WF_vars(Tick)

\* The timers with or without an interrupt handler on the same flag.
InitTimerIsr ==
    /\ hw \in HwStates
    /\ kind \in {"oneshot", "periodic"}
    /\ pc = "idle" /\ arg = 0 /\ ret = "none" /\ lastOp = "none" /\ prevOp = "none"
    /\ prevRet = "none"
    /\ elapsed = 0 /\ fires = 0 /\ readies = 0 /\ armed = FALSE /\ waitAt = 0
    /\ wasRunning = FALSE
    /\ atCall = [running |-> FALSE, intFlag |-> FALSE, autoReload |-> FALSE]
    /\ fresh = FALSE /\ sawFresh = FALSE /\ started = FALSE
    /\ isrOn \in BOOLEAN
    /\ counter = 0 /\ latLo = 0 /\ latHi = 0 /\ capPending = FALSE
    /\ divider = 0
    /\ lpc = "idle" /\ lo_initial = 0 /\ div = 0 /\ lo = 0 /\ hi = 0
    /\ loReads = 0 /\ ticks = 0 /\ prevTicks = 0 /\ nReads = 0
    /\ hiAtLo = 0 /\ torn = FALSE
    /\ target = "esp32" /\ res = "none"
    /\ serialized = FALSE /\ ipc = "idle" /\ ilo_initial = 0 /\ idiv = 0 /\ ilo = 0
    /\ ihiAtLo = 0 /\ isrDone = FALSE /\ isrTorn = FALSE
    /\ convUnit = "none" /\ convN = 0 /\ convUs = 0

SpecTimerIsr == InitTimerIsr /\ [][NextTimerIsr]_vars

\* After time_init the counter starts from zero; the divider is whatever
\* LACTCONFIG holds.  The timer wrappers and the conversions are not used.
InitLatch ==
    /\ hw = [running |-> FALSE, count |-> 0, loaded |-> 0, autoReload |-> FALSE,
             intFlag |-> FALSE, alarmActive |-> FALSE]
    /\ kind = "oneshot"
    /\ pc = "idle" /\ arg = 0 /\ ret = "none" /\ lastOp = "none" /\ prevOp = "none"
    /\ prevRet = "none"
    /\ elapsed = 0 /\ fires = 0 /\ readies = 0 /\ armed = FALSE /\ waitAt = 0
    /\ wasRunning = FALSE
    /\ atCall = [running |-> FALSE, intFlag |-> FALSE, autoReload |-> FALSE]
    /\ fresh = FALSE /\ sawFresh = FALSE /\ started = FALSE /\ isrOn = FALSE
    /\ counter = 0 /\ latLo = 0 /\ latHi = 0 /\ capPending = FALSE
    /\ divider \in 0..MaxDiv
    /\ lpc = "idle" /\ lo_initial = 0 /\ div = 0 /\ lo = 0 /\ hi = 0
    /\ loReads = 0 /\ ticks = 0 /\ prevTicks = 0 /\ nReads = 0
    /\ hiAtLo = 0 /\ torn = FALSE
    /\ target \in {"esp32", "direct"} /\ res = "none"
    /\ serialized = FALSE /\ ipc = "idle" /\ ilo_initial = 0 /\ idiv = 0 /\ ilo = 0
    /\ ihiAtLo = 0 /\ isrDone = FALSE /\ isrTorn = FALSE
    /\ convUnit = "none" /\ convN = 0 /\ convUs = 0

SpecLatch == InitLatch /\ [][NextLatch]_vars

\* The ESP32 target with a handler that also reads the time; whether the
\* callers serialize their reads is fixed from the start.
InitLatchIsr ==
    /\ hw = [running |-> FALSE, count |-> 0, loaded |-> 0, autoReload |-> FALSE,
             intFlag |-> FALSE, alarmActive |-> FALSE]
    /\ kind = "oneshot"
    /\ pc = "idle" /\ arg = 0 /\ ret = "none" /\ lastOp = "none" /\ prevOp = "none"
    /\ prevRet = "none"
    /\ elapsed = 0 /\ fires = 0 /\ readies = 0 /\ armed = FALSE /\ waitAt = 0
    /\ wasRunning = FALSE
    /\ atCall = [running |-> FALSE, intFlag |-> FALSE, autoReload |-> FALSE]
    /\ fresh = FALSE /\ sawFresh = FALSE /\ started = FALSE /\ isrOn = FALSE
    /\ counter = 0 /\ latLo = 0 /\ latHi = 0 /\ capPending = FALSE
    /\ divider \in 0..MaxDiv
    /\ lpc = "idle" /\ lo_initial = 0 /\ div = 0 /\ lo = 0 /\ hi = 0
    /\ loReads = 0 /\ ticks = 0 /\ prevTicks = 0 /\ nReads = 0
    /\ hiAtLo = 0 /\ torn = FALSE
    /\ target = "esp32" /\ res = "none"
    /\ serialized \in BOOLEAN /\ ipc = "idle" /\ ilo_initial = 0 /\ idiv = 0 /\ ilo = 0
    /\ ihiAtLo = 0 /\ isrDone = FALSE /\ isrTorn = FALSE
    /\ convUnit = "none" /\ convN = 0 /\ convUs = 0

SpecLatchIsr == InitLatchIsr /\ [][NextLatchIsr]_vars

\* Only the entry points' conversions are applied.
InitConv ==
    /\ hw = [running |-> FALSE, count |-> 0, loaded |-> 0, autoReload |-> FALSE,
             intFlag |-> FALSE, alarmActive |-> FALSE]
    /\ kind = "oneshot"
    /\ pc = "idle" /\ arg = 0 /\ ret = "none" /\ lastOp = "none" /\ prevOp = "none"
    /\ prevRet = "none"
    /\ elapsed = 0 /\ fires = 0 /\ readies = 0 /\ armed = FALSE /\ waitAt = 0
    /\ wasRunning = FALSE
    /\ atCall = [running |-> FALSE, intFlag |-> FALSE, autoReload |-> FALSE]
    /\ fresh = FALSE /\ sawFresh = FALSE /\ started = FALSE /\ isrOn = FALSE
    /\ counter = 0 /\ latLo = 0 /\ latHi = 0 /\ capPending = FALSE
    /\ divider = 0
    /\ lpc = "idle" /\ lo_initial = 0 /\ div = 0 /\ lo = 0 /\ hi = 0
    /\ loReads = 0 /\ ticks = 0 /\ prevTicks = 0 /\ nReads = 0
    /\ hiAtLo = 0 /\ torn = FALSE
    /\ target = "esp32" /\ res = "none"
    /\ serialized = FALSE /\ ipc = "idle" /\ ilo_initial = 0 /\ idiv = 0 /\ ilo = 0
    /\ ihiAtLo = 0 /\ isrDone = FALSE /\ isrTorn = FALSE
    /\ convUnit = "none" /\ convN = 0 /\ convUs = 0

SpecConv == InitConv /\ [][NextConv]_vars

(***************************************************************************)
(* Properties.                                                             *)
(***************************************************************************)

\* C1: the poll loop of the latched read reads LACTLO at most d + 1 times,
\* d being the divider read before the loop, and has left the loop by then,
\* also when the requested capture never lands (checked under SpecLatch).
C1_LatchTerminates ==
    /\ loReads <= divider + 1
    /\ lpc = "loop" => (loReads <= divider /\ loReads + div = divider)

\* A stuck capture: the loop ran its whole budget, LACTLO never changed and
\* the capture is still pending when the high half is about to be read.
C1_Witness ==
    /\ lpc = "hi"
    /\ capPending
    /\ divider = MaxDiv
    /\ loReads = divider + 1
    /\ lo = lo_initial

\* C2: of two consecutive raw reads the second is not smaller than the first
\* (the counter does not wrap below MaxCounter).  Checked under SpecLatch.
C2_Monotonic == nReads >= 2 => ticks >= prevTicks

\* C3: the value try_now_raw returns is made of the two halves of one and
\* the same capture, never of a stale low half and a newer high half.
\* Checked under SpecLatch.
C3_NoTornValue == nReads >= 1 => ~torn

\* C4: when delay(D) has returned, at least D ticks of the reference clock
\* have passed since the call, whatever state the timer was in before
\* (checked under SpecTimer).
C4_DelayLowerBound ==
    (kind = "oneshot" /\ pc = "idle" /\ lastOp = "delay") => elapsed >= arg

\* delay(D) with the longest D returns exactly D after a call that found the
\* timer running in auto-reload mode with a stale interrupt flag.
C4_Witness ==
    /\ kind = "oneshot" /\ pc = "idle" /\ lastOp = "delay"
    /\ arg = MaxDur
    /\ elapsed = arg
    /\ atCall.running /\ atCall.intFlag /\ atCall.autoReload

\* C5: after start(T) a wait() that reads the flag before T has elapsed
\* reports WouldBlock, the first wait() of an armed timer that reads it once
\* T has elapsed (at the first tick for T = 0) reports Ready, and while the
\* timer stays armed the hardware fires every T ticks, each Ready standing
\* for a fire, with no further start().  Checked under SpecTimer.
C5_PeriodicCadence ==
    kind = "periodic" =>
        /\ (pc = "idle" /\ lastOp = "wait" /\ waitAt < arg) => ret = "WouldBlock"
        /\ (pc = "idle" /\ lastOp = "wait" /\ armed /\ waitAt >= Max(arg, 1))
               => (ret = "Ready" \/ readies >= 1)
        /\ armed => (fires = elapsed \div Max(arg, 1) /\ readies <= fires)

\* Two Ready reports after one start(T), T >= 2, the second 2T after it.
C5_Witness ==
    /\ kind = "periodic" /\ armed /\ pc = "idle"
    /\ lastOp = "wait" /\ ret = "Ready"
    /\ arg >= 2
    /\ readies = 2
    /\ fires = 2
    /\ elapsed = 2 * arg

\* C6: after cancel() the timer is stopped; cancel() reported Ok exactly when
\* the timer was running at the call, so cancel() right after start() reports
\* Ok and cancel() right after cancel() reports TimerInactive.  Checked under
\* SpecTimer.
C6_Cancel ==
    (kind = "periodic" /\ lastOp = "cancel") =>
        /\ ~hw.running
        /\ ret \in {"Ok", "TimerInactive"}
        /\ (ret = "Ok") <=> wasRunning
        /\ prevOp = "start" => ret = "Ok"
        /\ prevOp = "cancel" => ret = "TimerInactive"

\* The second of two cancel() calls in a row, the first of which stopped a
\* running timer.
C6_Witness ==
    /\ kind = "periodic" /\ lastOp = "cancel" /\ prevOp = "cancel"
    /\ prevRet = "Ok"
    /\ ret = "TimerInactive"

\* C7: when start(T) returns the timer is running from zero with the flag
\* clear, auto-reload on and T loaded, whatever its state at the call, and
\* the flag stays clear until T has elapsed.  Checked under SpecTimer.
C7_StartResets ==
    (kind = "periodic" /\ armed) =>
        /\ hw.running /\ hw.autoReload /\ hw.loaded = arg
        /\ (lastOp = "start" /\ elapsed = 0) => (hw.count = 0 /\ ~hw.intFlag)
        /\ elapsed < arg => (~hw.intFlag /\ hw.count = elapsed)

\* start() has just returned from a restart of a timer that had fired: the
\* call before was start() too, and this one found the timer running with
\* the flag set and a count that it had to reset.
C7_Witness ==
    /\ kind = "periodic" /\ armed /\ pc = "idle"
    /\ lastOp = "start" /\ prevOp = "start"
    /\ elapsed = 0
    /\ atCall.running /\ atCall.intFlag
    /\ arg = MaxDur

\* C8: delay_nanos(500) hands delay() the duration delay_micros(1) hands it
\* (checked under SpecConv).
C8_NanosLikeMicros ==
    (convUnit = "nanos" /\ convN = 500) => convUs = delay_micros(1)

\* C9: the duration delay_nanos(ns) loads is at least ns nanoseconds
\* (checked under SpecConv).
C9_NanosAtLeast == convUnit = "nanos" => convUs * 1000 >= convN

\* C10: a wait() that finds the interrupt flag clear reports WouldBlock and
\* changes nothing in the hardware: flag, alarm line, running state, count,
\* loaded value and auto-reload stay as they were.  Checked under SpecTimer.
C10_WaitNoSideEffects ==
    [][(WaitCheck /\ ~is_interrupt_set(hw))
          => (hw' = hw /\ pc' = "idle" /\ ret' = "WouldBlock" /\ lastOp' = "wait")]_vars

\* wait() reported WouldBlock on an armed, running timer that had not fired.
C10_Witness ==
    /\ kind = "periodic" /\ pc = "idle" /\ armed
    /\ lastOp = "wait" /\ ret = "WouldBlock"
    /\ hw.running /\ ~hw.intFlag
    /\ fires = 0 /\ elapsed >= 1

\* C11: whenever delay() has returned, the timer is stopped and the interrupt
\* flag is clear, whatever the hardware state was before the call.  Checked
\* under SpecTimer; the state right after the return is the state of the
\* one-shot with pc = "idle" and lastOp = "delay" (a stopped timer does not
\* react to ticks, and delay is the one-shot's only operation).
C11_DelayLeavesIdle ==
    (kind = "oneshot" /\ pc = "idle" /\ lastOp = "delay")
        => (~is_running(hw) /\ ~is_interrupt_set(hw))

\* A delay of at least one microsecond returned that had found the timer
\* running with a stale flag.
C11_Witness ==
    /\ kind = "oneshot" /\ pc = "idle" /\ lastOp = "delay"
    /\ atCall.running /\ atCall.intFlag /\ arg >= 1
    /\ ~hw.running /\ ~hw.intFlag

\* C13: a wait() that consumed a set flag reports Ready with the alarm line
\* active and the flag cleared (the flag is set afterwards only by a new
\* fire), and each fire is consumed once: of two wait()s in a row that both
\* report Ready, the second saw a fire that came after the first one's clear.
\* Checked under SpecTimer.
C13_WaitConsumesFire ==
    /\ (pc = "idle" /\ lastOp = "wait" /\ ret = "Ready")
          => (hw.alarmActive /\ (~fresh => ~is_interrupt_set(hw)))
    /\ (pc = "idle" /\ lastOp = "wait" /\ ret = "Ready"
           /\ prevOp = "wait" /\ prevRet = "Ready") => sawFresh

\* A Ready was followed, with no fire in between, by a WouldBlock on a timer
\* that is still running.
C13_Witness ==
    /\ kind = "periodic" /\ pc = "idle" /\ started /\ armed
    /\ lastOp = "wait" /\ ret = "WouldBlock"
    /\ prevOp = "wait" /\ prevRet = "Ready"
    /\ ~fresh /\ hw.running /\ hw.alarmActive /\ fires >= 1

\* C14: after cancel() returned Ok, every wait() before the next start()
\* reports WouldBlock, also when the timer had fired before the cancel.
\* armed is cleared by a successful cancel and set again by start's return.
\* Checked under SpecTimer.
C14_IdleAfterCancel ==
    (kind = "periodic" /\ started /\ ~armed /\ pc = "idle" /\ lastOp = "wait")
        => ret = "WouldBlock"

\* C18: after a start(), wait() reports Ready only for a fire of the
\* hardware that came after that start() and after the flag was last consumed
\* by a wait(); a flag left set before start() is not reported.  Checked under
\* SpecTimer.
C18_NoSpuriousReady ==
    (kind = "periodic" /\ started /\ pc = "idle" /\ lastOp = "wait" /\ ret = "Ready")
        => sawFresh

\* A start() that found a stale flag was followed by a wait() that reported
\* WouldBlock before the first fire.
C18_Witness ==
    /\ kind = "periodic" /\ started /\ armed /\ pc = "idle"
    /\ atCall.intFlag
    /\ lastOp = "wait" /\ ret = "WouldBlock" /\ prevOp = "start"
    /\ fires = 0 /\ hw.running

\* C19: a cancel() that reports TimerInactive leaves the hardware as it was;
\* TimerInactive is reported by cancel() only, and no operation reports
\* TimerActive or AlarmInactive.  Checked under SpecTimer as a property of
\* every step.
C19_CancelErrorOnly ==
    [][/\ (Cancel /\ ret' = "TimerInactive") => hw' = hw
       /\ ret' = "TimerInactive" => lastOp' = "cancel"
       /\ ret' \notin {"TimerActive", "AlarmInactive"}]_vars

\* cancel() reported TimerInactive on a stopped timer whose flag was set.
C19_Witness ==
    /\ kind = "periodic" /\ pc = "idle"
    /\ lastOp = "cancel" /\ ret = "TimerInactive" /\ ~wasRunning
    /\ ~hw.running /\ hw.intFlag /\ started

\* C15: delay() does not hang.  With a hardware clock that keeps ticking
\* (and so sets the flag once the count reaches the loaded value), every
\* delay() that has been entered, for every duration including zero and from
\* every hardware state, leaves its poll loop and returns.  Checked under
\* SpecDelayFair.
C15_DelayReturns ==
    (pc # "idle") ~> (pc = "idle" /\ lastOp = "delay")

\* delay(0) returned after a call that found the timer running with a stale
\* flag and auto-reload on.
C15_Witness ==
    /\ kind = "oneshot" /\ pc = "idle" /\ lastOp = "delay" /\ arg = 0
    /\ atCall.running /\ atCall.intFlag /\ atCall.autoReload

\* C17: with the flag observed by the poller alone (no interrupt handler),
\* every fire of the hardware is reported by the next wait(): a wait() that
\* reports WouldBlock was made with no fire outstanding since the flag was
\* last consumed.  With a handler on the same flag this fails (C17_Witness).
\* Checked under SpecTimerIsr.
C17_SinglePathReportsFires ==
    (~isrOn /\ kind = "periodic" /\ pc = "idle" /\ lastOp = "wait" /\ ret = "WouldBlock")
        => ~sawFresh

\* With the handler on: the armed timer fired, the handler cleared the flag,
\* and the wait() that followed reported WouldBlock; no wait() has reported
\* Ready for the fire.
C17_Witness ==
    /\ isrOn /\ kind = "periodic" /\ started /\ armed /\ pc = "idle"
    /\ lastOp = "wait" /\ ret = "WouldBlock" /\ sawFresh
    /\ fires >= 1 /\ readies = 0

\* C12: reading the ticks never fails.  Every try_now_raw that has returned,
\* on the latched and on the direct path, with or without its retry budget
\* spent, returned Ok; so try_now returns Ok and current_time returns a value
\* instead of panicking.  Checked under SpecLatch.
C12_ReadInfallible ==
    nReads >= 1 => (res = "Ok" /\ try_now(res) = "Ok" /\ current_time(res) = "Value")

\* A latched read returned after spending its whole retry budget with the
\* capture still not landed.
C12_Witness ==
    /\ target = "esp32" /\ lpc = "idle" /\ nReads >= 1
    /\ divider >= 1 /\ loReads = divider + 1 /\ lo = lo_initial /\ div = 0
    /\ capPending /\ res = "Ok"

\* C16: when the reads of the two contexts are serialized, every read
\* returns the two halves of its own capture: neither the main context's nor
\* the handler's returned value mixes a low half of one capture with the high
\* half of another.  (Without serialization the handler's capture can land
\* between the main context's two halves.)  Checked under SpecLatchIsr.
C16_SerializedReadsOwnCapture ==
    serialized => (~torn /\ ~isrTorn)

====
